---------------------------- MODULE Spec2Model ----------------------------
(***************************************************************************)
(* Model of the Vedic chart engine (vedic.py, vedicutils.py, utils.py).    *)
(*                                                                         *)
(* Angles are exact rationals on a grid of 1/UnitsPerDegree degree, held   *)
(* as integers: 13 + 1/3 degrees (a nakshatra) is 40 units, a sign of 30   *)
(* degrees is 90 units, the circle is 1080 units.  Floating-point rounding *)
(* of the Python arithmetic is modelled only in get_panchanga, where it    *)
(* moves a remainder out of [0, 360).                                      *)
(*                                                                         *)
(* The ephemeris (swisseph) is outside the repository: what swe.houses_ex  *)
(* and swe.calc_ut answer is chosen freely from small sets, whatever the   *)
(* Julian day, so the conversion of the date to a Julian day is not        *)
(* carried.  Each entry point is one action: the whole call, with the      *)
(* ephemeris calls it makes logged in houses_ex_calls and calc_ut_calls.   *)
(* SpecConcurrent alone splits the entry points at their library calls.    *)
(*                                                                         *)
(* An optional value is a sequence of length 0 (None) or 1.                *)
(***************************************************************************)
EXTENDS Integers, Sequences, FiniteSets, TLC

VARIABLES
    pc,               \* "idle" or "returned": position of the single caller
                      \* (SpecConcurrent: each thread's position, as for
                      \* call, result and the two logs)
    call,             \* the entry point invoked and its arguments
    result,           \* what the entry point returned
    sid_mode,         \* swisseph's process-wide sidereal mode
    houses_ex_calls,  \* swe.houses_ex calls made by the current invocation
    calc_ut_calls,    \* swe.calc_ut calls made by the current invocation
    natal_chart       \* the Chart object handed to compare_transits

vars == <<pc, call, result, sid_mode, houses_ex_calls, calc_ut_calls, natal_chart>>

None == <<>>
Some(v) == <<v>>

----------------------------------------------------------------------------
\* Units and tables (vedicutils.py)

UnitsPerDegree == 3
Deg(d) == d * UnitsPerDegree
Circle == Deg(360)
SignSpan == Deg(30)

ZODIAC_SIGNS ==
    <<"Aries", "Taurus", "Gemini", "Cancer", "Leo", "Virgo", "Libra",
      "Scorpio", "Sagittarius", "Capricorn", "Aquarius", "Pisces">>

\* keys of the PLANETS dict, in insertion order
PLANETS ==
    <<"Sun", "Moon", "Mars", "Mercury", "Jupiter", "Venus", "Saturn",
      "Rahu", "Ketu">>

Bodies == {PLANETS[i] : i \in 1..Len(PLANETS)}
QueriedBodies == Bodies \ {"Ketu"}

SIDM_DEFAULT == "FAGAN_BRADLEY"
SIDM_LAHIRI == "LAHIRI"

\* list.index: 0-based position of the first occurrence
IndexOf(seq, x) == (CHOOSE i \in 1..Len(seq) : seq[i] = x /\ \A j \in 1..(i - 1) : seq[j] # x) - 1

\* Python's a // b and a % b for b > 0 (floor semantics)
FloorDiv(a, b) == IF a >= 0 THEN a \div b ELSE -((-a + b - 1) \div b)
PyMod(a, b) == a - b * FloorDiv(a, b)

----------------------------------------------------------------------------
\* Chart geometry (vedicutils.py)

get_zodiac_sign(degree) == ZODIAC_SIGNS[PyMod(FloorDiv(degree, SignSpan), 12) + 1]

\* a variant that numbers the parts of a sign from 1
get_divisional_sign_one_based(original_degree, varga_division) ==
    LET sign_index == FloorDiv(PyMod(original_degree, SignSpan) * varga_division, SignSpan) + 1
        final_sign == PyMod(FloorDiv(original_degree, SignSpan) * varga_division + sign_index, 12)
    IN  ZODIAC_SIGNS[final_sign + 1]

\* a variant that counts the parts of a sign from the sign itself
get_divisional_sign_from_own_sign(original_degree, varga_division) ==
    LET sign_index == FloorDiv(PyMod(original_degree, SignSpan) * varga_division, SignSpan)
        final_sign == PyMod(FloorDiv(original_degree, SignSpan) + sign_index, 12)
    IN  ZODIAC_SIGNS[final_sign + 1]

get_divisional_sign(original_degree, varga_division) ==
    LET sign_index == FloorDiv(PyMod(original_degree, SignSpan) * varga_division, SignSpan)
        final_sign == PyMod(FloorDiv(original_degree, SignSpan) * varga_division + sign_index, 12)
    IN  ZODIAC_SIGNS[final_sign + 1]

Min(a, b) == IF a <= b THEN a ELSE b
Max(a, b) == IF a >= b THEN a ELSE b

sanitize_coordinates(lat, lon) == <<Max(Min(lat, 90), -90), Max(Min(lon, 180), -180)>>

get_house_signs(asc_deg) ==
    LET asc_index == PyMod(FloorDiv(asc_deg, SignSpan), 12)
    IN  [i \in 1..12 |-> ZODIAC_SIGNS[PyMod(asc_index + (i - 1), 12) + 1]]

Abs(x) == IF x < 0 THEN -x ELSE x

combustion_range(planet_name) ==
    CASE planet_name = "Mercury" -> Deg(12)
      [] planet_name = "Venus" -> Deg(10)
      [] planet_name = "Mars" -> Deg(17)
      [] planet_name = "Jupiter" -> Deg(11)
      [] planet_name = "Saturn" -> Deg(15)
      [] OTHER -> Deg(8)

\* a variant that counts a body exactly on the limit as combust
is_combust_inclusive(planet_name, planet_deg, sun_deg) ==
    LET diff == Abs(PyMod(planet_deg - sun_deg + Deg(180), Circle) - Deg(180))
    IN  diff <= combustion_range(planet_name)

is_combust(planet_name, planet_deg, sun_deg) ==
    LET diff == Abs(PyMod(planet_deg - sun_deg + Deg(180), Circle) - Deg(180))
    IN  diff < combustion_range(planet_name)

----------------------------------------------------------------------------
\* Ordered dicts: a sequence of entries with distinct names, in insertion order

DictHas(d, name) == \E i \in 1..Len(d) : d[i].name = name
DictGet(d, name) == d[CHOOSE i \in 1..Len(d) : d[i].name = name]
DictPut(d, entry) ==
    IF DictHas(d, entry.name)
    THEN [i \in 1..Len(d) |-> IF d[i].name = entry.name THEN entry ELSE d[i]]
    ELSE Append(d, entry)
DictKeys(d) == [i \in 1..Len(d) |-> d[i].name]

----------------------------------------------------------------------------
\* Ephemeris adapter (vedicutils.py).  eph[name] is what swe.calc_ut answers
\* for the body: its longitude and its speed.

\* a variant that leaves Rahu the flag its speed gives
get_planet_positions_step_rahu_by_speed(planet_data, name, eph) ==
    IF name = "Ketu"
    THEN planet_data
    ELSE LET pos == eph[name]
             d1 == DictPut(planet_data,
                     [name |-> name, longitude |-> pos.lon, degree |-> PyMod(pos.lon, SignSpan),
                      retrograde |-> (pos.speed < 0), speed |-> pos.speed])
             ketu_lon == PyMod(pos.lon + Deg(180), Circle)
         IN  IF name = "Rahu"
             THEN DictPut(d1,
                    [name |-> "Ketu", longitude |-> ketu_lon,
                     degree |-> PyMod(ketu_lon, SignSpan),
                     retrograde |-> TRUE, speed |-> -pos.speed])
             ELSE d1

get_planet_positions_step(planet_data, name, eph) ==
    IF name = "Ketu"
    THEN planet_data
    ELSE LET pos == eph[name]
             lon == pos.lon
             speed == pos.speed
             d1 == DictPut(planet_data,
                     [name |-> name, longitude |-> lon, degree |-> PyMod(lon, SignSpan),
                      retrograde |-> (speed < 0), speed |-> speed])
         IN  IF name = "Rahu"
             THEN LET ketu_lon == PyMod(lon + Deg(180), Circle)
                      d2 == DictPut(d1,
                              [name |-> "Rahu", longitude |-> lon,
                               degree |-> PyMod(lon, SignSpan),
                               retrograde |-> TRUE, speed |-> speed])
                  IN  DictPut(d2,
                        [name |-> "Ketu", longitude |-> ketu_lon,
                         degree |-> PyMod(ketu_lon, SignSpan),
                         retrograde |-> TRUE, speed |-> -speed])
             ELSE d1

RECURSIVE get_planet_positions_loop(_, _, _)
get_planet_positions_loop(planet_data, i, eph) ==
    IF i > Len(PLANETS)
    THEN planet_data
    ELSE get_planet_positions_loop(
             get_planet_positions_step(planet_data, PLANETS[i], eph), i + 1, eph)

get_planet_positions(eph) == get_planet_positions_loop(<<>>, 1, eph)

\* the swe.calc_ut calls get_planet_positions makes, in order, each under the
\* mode set at line 265
get_planet_positions_queries ==
    LET names == SelectSeq(PLANETS, LAMBDA n : n # "Ketu")
    IN  [i \in 1..Len(names) |-> [body |-> names[i], mode |-> SIDM_LAHIRI]]


----------------------------------------------------------------------------
\* Chart builder (vedic.py)

House(number, sign) == [number |-> number, sign |-> sign, planets |-> <<>>]
Planet(name, longitude, sign, retrograde) ==
    [name |-> name, longitude |-> longitude, sign |-> sign, retrograde |-> retrograde]
Chart(ascendant_sign, ascendant_degree, houses, planets, chart_type) ==
    [ascendant_sign |-> ascendant_sign, ascendant_degree |-> ascendant_degree,
     houses |-> houses, planets |-> planets, chart_type |-> chart_type]

\* "for house in houses: if house.sign == sign: house.planets.append(name); break"
FirstHouseWithSign(houses, sign) ==
    IF \E i \in 1..Len(houses) : houses[i].sign = sign
    THEN Some(CHOOSE i \in 1..Len(houses) :
                 houses[i].sign = sign /\ \A j \in 1..(i - 1) : houses[j].sign # sign)
    ELSE None

\* mutant: the house is taken to be the sign's place in the zodiac, whatever
\* the ascendant
append_to_house_by_zodiac_index(houses, name, sign) ==
    [houses EXCEPT ![IndexOf(ZODIAC_SIGNS, sign) + 1].planets = Append(@, name)]

append_to_house(houses, name, sign) ==
    LET k == FirstHouseWithSign(houses, sign)
    IN  IF k = None
        THEN houses
        ELSE [houses EXCEPT ![k[1]].planets = Append(@, name)]

\* vedicutils.get_ascendant: sets the mode, then asks for the cusps
get_ascendant_queries(lat, lon, asc) ==
    <<[lat |-> lat, lon |-> lon, mode |-> SIDM_LAHIRI, asc |-> asc]>>

calc_ut_log(eph) ==
    [i \in 1..Len(get_planet_positions_queries) |->
        [body |-> get_planet_positions_queries[i].body,
         mode |-> get_planet_positions_queries[i].mode,
         lon |-> eph[get_planet_positions_queries[i].body].lon,
         speed |-> eph[get_planet_positions_queries[i].body].speed]]

\* lines 111-127: one iteration per entry of planet_positions
RECURSIVE birth_assign_loop(_, _, _, _, _)
birth_assign_loop(planet_positions, i, houses, planets_by_name, text) ==
    IF i > Len(planet_positions)
    THEN [houses |-> houses, planets |-> planets_by_name, text |-> text]
    ELSE LET data == planet_positions[i]
             name == data.name
             sign == get_zodiac_sign(data.longitude)
             k == FirstHouseWithSign(houses, sign)
             line == IF k = None THEN <<>> ELSE <<<<name, houses[k[1]].number, houses[k[1]].sign>>>>
         IN  birth_assign_loop(planet_positions, i + 1,
                 append_to_house(houses, name, sign),
                 DictPut(planets_by_name, Planet(name, data.longitude, sign, data.retrograde)),
                 text \o line)

get_birth_chart(lat, lon, asc, eph) ==
    LET asc_deg == asc
        asc_sign == get_zodiac_sign(asc_deg)
        planet_positions == get_planet_positions(eph)
        house_signs == get_house_signs(asc_deg)
        houses == [i \in 1..Len(house_signs) |-> House(i, house_signs[i])]
        built == birth_assign_loop(planet_positions, 1, houses, <<>>, <<<<"Ascendant", asc_sign>>>>)
    IN  [ret |-> [chart |-> Some(Chart(asc_sign, asc_deg, built.houses, built.planets, "D1")),
                  formatted_text |-> built.text],
         mode |-> Some(SIDM_LAHIRI),
         houses_ex |-> get_ascendant_queries(lat, lon, asc),
         calc_ut |-> calc_ut_log(eph)]

\* lines 308-320
RECURSIVE divisional_assign_loop(_, _, _, _, _)
divisional_assign_loop(planet_positions, i, division_factor, house_objs, planets) ==
    IF i > Len(planet_positions)
    THEN [houses |-> house_objs, planets |-> planets]
    ELSE LET pdata == planet_positions[i]
             d_sign == get_divisional_sign(pdata.longitude, division_factor)
         IN  divisional_assign_loop(planet_positions, i + 1, division_factor,
                 append_to_house(house_objs, pdata.name, d_sign),
                 DictPut(planets, Planet(pdata.name, pdata.longitude, d_sign, pdata.retrograde)))

\* lines 331-336: one line per resident body, house by house
RECURSIVE divisional_text(_, _)
divisional_text(house_objs, i) ==
    IF i > Len(house_objs)
    THEN <<>>
    ELSE [j \in 1..Len(house_objs[i].planets) |->
             <<house_objs[i].planets[j], house_objs[i].number, house_objs[i].sign>>]
         \o divisional_text(house_objs, i + 1)

\* the coordinates handed to swe.houses_ex at line 292
divisional_coordinates(lat, lon) == sanitize_coordinates(lat, lon)

\* mutant: the ascendant keeps its D1 sign while the bodies are divided
ascendant_sign_undivided(asc_deg, division_factor) == get_zodiac_sign(asc_deg)

\* line 294
divisional_ascendant_sign(asc_deg, division_factor) ==
    get_divisional_sign(asc_deg, division_factor)

\* mutant: the 16-entry VARGA_DIVISIONS table of vedicutils.py in place of the
\* 20-entry local table
SupportedChartsFromVargaTable ==
    <<[name |-> "D1", factor |-> 1], [name |-> "D2", factor |-> 2],
      [name |-> "D3", factor |-> 3], [name |-> "D4", factor |-> 4],
      [name |-> "D5", factor |-> 5], [name |-> "D6", factor |-> 6],
      [name |-> "D7", factor |-> 7], [name |-> "D8", factor |-> 8],
      [name |-> "D9", factor |-> 9], [name |-> "D10", factor |-> 10],
      [name |-> "D11", factor |-> 11], [name |-> "D12", factor |-> 12],
      [name |-> "D16", factor |-> 16], [name |-> "D20", factor |-> 20],
      [name |-> "D24", factor |-> 24], [name |-> "D30", factor |-> 30]>>

\* keys of SUPPORTED_DIVISIONAL_CHARTS, in insertion order, and their factors
SUPPORTED_DIVISIONAL_CHARTS ==
    <<[name |-> "D1", factor |-> 1], [name |-> "D2", factor |-> 2],
      [name |-> "D3", factor |-> 3], [name |-> "D4", factor |-> 4],
      [name |-> "D5", factor |-> 5], [name |-> "D6", factor |-> 6],
      [name |-> "D7", factor |-> 7], [name |-> "D8", factor |-> 8],
      [name |-> "D9", factor |-> 9], [name |-> "D10", factor |-> 10],
      [name |-> "D11", factor |-> 11], [name |-> "D12", factor |-> 12],
      [name |-> "D16", factor |-> 16], [name |-> "D20", factor |-> 20],
      [name |-> "D24", factor |-> 24], [name |-> "D27", factor |-> 27],
      [name |-> "D30", factor |-> 30], [name |-> "D40", factor |-> 40],
      [name |-> "D45", factor |-> 45], [name |-> "D60", factor |-> 60]>>

get_divisional_chart(chart_type, lat, lon, asc, eph) ==
    IF ~DictHas(SUPPORTED_DIVISIONAL_CHARTS, chart_type)
    THEN [ret |-> [chart |-> None,
                   formatted_text |-> <<<<"Unsupported", DictKeys(SUPPORTED_DIVISIONAL_CHARTS)>>>>],
          mode |-> None, houses_ex |-> <<>>, calc_ut |-> <<>>]
    ELSE LET division_factor == DictGet(SUPPORTED_DIVISIONAL_CHARTS, chart_type).factor
             ll == divisional_coordinates(lat, lon)
             asc_deg == asc
             asc_sign == divisional_ascendant_sign(asc_deg, division_factor)
             planet_positions == get_planet_positions(eph)
             house_objs == [i \in 1..12 |->
                 House(i, ZODIAC_SIGNS[PyMod(IndexOf(ZODIAC_SIGNS, asc_sign) + (i - 1), 12) + 1])]
             built == divisional_assign_loop(planet_positions, 1, division_factor, house_objs, <<>>)
         IN  [ret |-> [chart |-> Some(Chart(asc_sign, asc_deg, built.houses, built.planets, chart_type)),
                       formatted_text |-> <<<<"Ascendant", asc_sign>>>> \o divisional_text(built.houses, 1)],
              mode |-> Some(SIDM_LAHIRI),
              houses_ex |-> <<[lat |-> ll[1], lon |-> ll[2], mode |-> SIDM_LAHIRI, asc |-> asc]>>,
              calc_ut |-> calc_ut_log(eph)]

----------------------------------------------------------------------------
\* Transit engine (vedic.py)

\* mutant: a loop without break keeps the last matching house
natal_house_lookup_last(natal, sign) ==
    LET hits == {i \in 1..Len(natal.houses) : natal.houses[i].sign = sign}
    IN  IF hits = {} THEN None
        ELSE Some(natal.houses[CHOOSE i \in hits : \A j \in hits : j <= i].number)

\* next((h.number for h in natal_chart.houses if h.sign == sign), None)
natal_house_lookup(natal, sign) ==
    LET k == FirstHouseWithSign(natal.houses, sign)
    IN  IF k = None THEN None ELSE Some(natal.houses[k[1]].number)

transit_combust(planet, longitude, sun_deg) == is_combust(planet, longitude, sun_deg)

compare_transits_entry(natal, data, sun_deg) ==
    LET sign == get_zodiac_sign(data.longitude)
    IN  [name |-> data.name,
         transit_sign |-> sign,
         transit_house |-> natal_house_lookup(natal, sign),
         retrograde |-> data.retrograde,
         combust |-> transit_combust(data.name, data.longitude, sun_deg),
         transit_longitude |-> data.longitude]

RECURSIVE compare_transits_loop(_, _, _, _, _)
compare_transits_loop(natal, transits, i, sun_deg, results) ==
    IF i > Len(transits)
    THEN results
    ELSE compare_transits_loop(natal, transits, i + 1, sun_deg,
             DictPut(results, compare_transits_entry(natal, transits[i], sun_deg)))

compare_transits(natal, eph) ==
    LET transits == get_planet_positions(eph)
        sun_deg == DictGet(transits, "Sun").longitude
        results == compare_transits_loop(natal, transits, 1, sun_deg, <<>>)
    IN  [ret |-> [transit_data |-> results,
                  formatted_text |-> [i \in 1..Len(results) |->
                      <<results[i].name, results[i].transit_sign,
                        results[i].transit_house, results[i].transit_longitude>>]],
         mode |-> Some(SIDM_LAHIRI),
         houses_ex |-> <<>>,
         calc_ut |-> calc_ut_log(eph)]

----------------------------------------------------------------------------
\* Inputs of the chart and transit entry points

AscSamples == 3
MaxCoordOver == 1
AscStride == Deg(123) + 1

\* answers of swe.houses_ex: an ascendant longitude in [0, 360)
AscAnswers == {PyMod(k * AscStride, Circle) : k \in 0..(AscSamples - 1)}

\* answers of swe.calc_ut: two possible (longitude, speed) pairs per body
EphAnswers(name) ==
    CASE name = "Sun" -> <<[lon |-> 0, speed |-> 1], [lon |-> Deg(185) + 1, speed |-> 1]>>
      [] name = "Moon" -> <<[lon |-> Deg(45), speed |-> 13], [lon |-> Deg(359) + 2, speed |-> 12]>>
      [] name = "Mars" -> <<[lon |-> Deg(10), speed |-> -1], [lon |-> Deg(200), speed |-> 1]>>
      [] name = "Mercury" -> <<[lon |-> Deg(11) + 2, speed |-> -1], [lon |-> Deg(12), speed |-> 1]>>
      [] name = "Jupiter" -> <<[lon |-> Deg(45) + 1, speed |-> 1], [lon |-> Deg(275), speed |-> -1]>>
      [] name = "Venus" -> <<[lon |-> Deg(350) + 1, speed |-> 1], [lon |-> Deg(195) + 1, speed |-> -1]>>
      [] name = "Saturn" -> <<[lon |-> Deg(123) + 1, speed |-> -1], [lon |-> Deg(180), speed |-> 0]>>
      [] name = "Rahu" -> <<[lon |-> Deg(100), speed |-> -1], [lon |-> Deg(300), speed |-> 1]>>

EphTables ==
    {[n \in QueriedBodies |-> EphAnswers(n)[pick[n]]] : pick \in [QueriedBodies -> {1, 2}]}

\* (latitude, longitude) arguments, in whole degrees: in range, on the edge,
\* and out of range on either side
CoordInputs ==
    {<<28, 77>>, <<90, -180>>}
    \cup {<<90 + k, 77>> : k \in 1..MaxCoordOver}
    \cup {<<-90 - k, 180 + k>> : k \in 1..MaxCoordOver}
    \cup {<<28, -180 - k>> : k \in 1..MaxCoordOver}

SupportedCodes == {SUPPORTED_DIVISIONAL_CHARTS[i].name : i \in 1..Len(SUPPORTED_DIVISIONAL_CHARTS)}
ChartTypeInputs == SupportedCodes \cup {"D13", "D0", "D61", "d9", ""}

\* natal charts handed to compare_transits: charts the builder returns, and
\* malformed ones (houses missing, or every house carrying the same sign)
ReferenceEph == [n \in QueriedBodies |-> EphAnswers(n)[1]]
BuiltNatal(asc) == get_birth_chart(28, 77, asc, ReferenceEph).ret.chart[1]
TruncatedNatal(chart, n) == [chart EXCEPT !.houses = SubSeq(@, 1, n)]
SameSignNatal(chart) ==
    [chart EXCEPT !.houses = [i \in 1..Len(@) |-> [@[i] EXCEPT !.sign = chart.ascendant_sign]]]
NatalInputs ==
    {BuiltNatal(a) : a \in AscAnswers}
    \cup {TruncatedNatal(BuiltNatal(a), n) : a \in AscAnswers, n \in {0, 6}}
    \cup {SameSignNatal(BuiltNatal(a)) : a \in AscAnswers}

----------------------------------------------------------------------------
\* The chart and transit entry points, each called by a single caller

NoCall == [op |-> "none"]
NoResult == [none |-> TRUE]

Init ==
    /\ pc = "idle"
    /\ call = NoCall
    /\ result = NoResult
    /\ sid_mode = SIDM_DEFAULT
    /\ houses_ex_calls = <<>>
    /\ calc_ut_calls = <<>>
    /\ natal_chart = None

Returns(r) ==
    /\ pc' = "returned"
    /\ result' = r.ret
    /\ sid_mode' = IF r.mode = None THEN sid_mode ELSE r.mode[1]
    /\ houses_ex_calls' = r.houses_ex
    /\ calc_ut_calls' = r.calc_ut

GetBirthChart ==
    /\ pc = "idle"
    /\ \E c \in CoordInputs, asc \in AscAnswers, eph \in EphTables :
          /\ call' = [op |-> "get_birth_chart", lat |-> c[1], lon |-> c[2]]
          /\ Returns(get_birth_chart(c[1], c[2], asc, eph))
    /\ natal_chart' = None

GetDivisionalChart ==
    /\ pc = "idle"
    /\ \E t \in ChartTypeInputs, c \in CoordInputs, asc \in AscAnswers, eph \in EphTables :
          /\ call' = [op |-> "get_divisional_chart", chart_type |-> t, lat |-> c[1], lon |-> c[2]]
          /\ Returns(get_divisional_chart(t, c[1], c[2], asc, eph))
    /\ natal_chart' = None

CompareTransits ==
    /\ pc = "idle"
    /\ \E natal \in NatalInputs, eph \in EphTables :
          /\ call' = [op |-> "compare_transits", natal_chart |-> natal]
          /\ Returns(compare_transits(natal, eph))
          /\ natal_chart' = Some(natal)

\* the caller takes the result; the sidereal mode stays as the call left it
Return ==
    /\ pc = "returned"
    /\ pc' = "idle"
    /\ call' = NoCall
    /\ result' = NoResult
    /\ houses_ex_calls' = <<>>
    /\ calc_ut_calls' = <<>>
    /\ natal_chart' = None
    /\ UNCHANGED sid_mode

Next == GetBirthChart \/ GetDivisionalChart \/ CompareTransits \/ Return

Spec == Init /\ [][Next]_vars

----------------------------------------------------------------------------
\* Properties of the chart builder and the transit engine (Spec)

BuilderReturned ==
    pc = "returned" /\ call.op \in {"get_birth_chart", "get_divisional_chart"}
ChartReturned == BuilderReturned /\ result.chart # None
TransitReturned == pc = "returned" /\ call.op = "compare_transits"

\* the sign holding a longitude of [0, 360), and the sign of its N-th harmonic
SignAt(longitude) == ZODIAC_SIGNS[(longitude \div SignSpan) + 1]
HarmonicSignAt(longitude, n) == ZODIAC_SIGNS[(((longitude * n) \div SignSpan) % 12) + 1]

\* the division factor the claims give for a chart-type code
FactorOfCode(code) ==
    CASE code = "D1" -> 1 [] code = "D2" -> 2 [] code = "D3" -> 3 [] code = "D4" -> 4
      [] code = "D5" -> 5 [] code = "D6" -> 6 [] code = "D7" -> 7 [] code = "D8" -> 8
      [] code = "D9" -> 9 [] code = "D10" -> 10 [] code = "D11" -> 11 [] code = "D12" -> 12
      [] code = "D16" -> 16 [] code = "D20" -> 20 [] code = "D24" -> 24 [] code = "D27" -> 27
      [] code = "D30" -> 30 [] code = "D40" -> 40 [] code = "D45" -> 45 [] code = "D60" -> 60
ClaimedCodes ==
    {"D1", "D2", "D3", "D4", "D5", "D6", "D7", "D8", "D9", "D10", "D11", "D12",
     "D16", "D20", "D24", "D27", "D30", "D40", "D45", "D60"}

ReturnedFactor == IF call.op = "get_birth_chart" THEN 1 ELSE FactorOfCode(call.chart_type)

\* the places (house, position) where a body is listed
Residences(chart, b) ==
    {<<i, j>> \in (1..Len(chart.houses)) \X (1..Len(PLANETS)) :
        j <= Len(chart.houses[i].planets) /\ chart.houses[i].planets[j] = b}

\* C1: in every chart a builder returns, each of the 9 bodies is listed in
\* exactly one of the 12 houses, the one whose sign is the sign recorded for
\* the body (zodiac sign in the main chart, divisional sign under the chart's
\* factor in a divisional chart); nothing else is listed.
C1_EveryBodyInExactlyOneHouse ==
    ChartReturned =>
        LET chart == result.chart[1]
        IN  /\ Len(chart.houses) = 12
            /\ DictKeys(chart.planets) = PLANETS
            /\ \A b \in Bodies :
                  /\ Cardinality(Residences(chart, b)) = 1
                  /\ \A r \in Residences(chart, b) :
                        chart.houses[r[1]].sign = DictGet(chart.planets, b).sign
                  /\ DictGet(chart.planets, b).sign =
                        HarmonicSignAt(DictGet(chart.planets, b).longitude, ReturnedFactor)
            /\ \A i \in 1..12 :
                  /\ Len(chart.houses[i].planets) <= Len(PLANETS)
                  /\ \A j \in 1..Len(chart.houses[i].planets) :
                        chart.houses[i].planets[j] \in Bodies

\* a D9 chart in which two bodies share a house and some body's divisional
\* sign differs from its zodiac sign
C1_Witness ==
    /\ ChartReturned
    /\ call.op = "get_divisional_chart"
    /\ call.chart_type = "D9"
    /\ \E i \in 1..12 : Len(result.chart[1].houses[i].planets) >= 2
    /\ \E b \in Bodies :
          DictGet(result.chart[1].planets, b).sign
              # SignAt(DictGet(result.chart[1].planets, b).longitude)

\* C2: the houses are numbered 1..12 in order, house 1 carries the ascendant
\* sign and house k the sign k-1 places further along the zodiac; the
\* ascendant sign is the zodiac sign of the ascendant degree in the main chart
\* and its divisional sign under the requested factor in a divisional chart.
C2_HousesRotateFromAscendant ==
    ChartReturned =>
        LET chart == result.chart[1]
            asc_sign == HarmonicSignAt(houses_ex_calls[1].asc, ReturnedFactor)
        IN  /\ chart.ascendant_degree = houses_ex_calls[1].asc
            /\ chart.ascendant_sign = asc_sign
            /\ Len(chart.houses) = 12
            /\ \A k \in 1..12 :
                  /\ chart.houses[k].number = k
                  /\ chart.houses[k].sign =
                        ZODIAC_SIGNS[((IndexOf(ZODIAC_SIGNS, asc_sign) + k - 1) % 12) + 1]

\* a divisional chart whose ascendant sign is not the zodiac sign of the
\* ascendant degree
C2_Witness ==
    /\ ChartReturned
    /\ call.op = "get_divisional_chart"
    /\ result.chart[1].houses[1].sign # SignAt(result.chart[1].ascendant_degree)
    /\ result.chart[1].houses[1].sign = result.chart[1].ascendant_sign

\* C3: get_divisional_chart with a code outside the 20 supported ones returns
\* no chart and a message listing all supported codes, and asks the ephemeris
\* nothing; with a supported code it returns a chart tagged with that code.
C3_UnsupportedCodeGivesNoChart ==
    (pc = "returned" /\ call.op = "get_divisional_chart") =>
        IF call.chart_type \in ClaimedCodes
        THEN /\ result.chart # None
             /\ result.chart[1].chart_type = call.chart_type
        ELSE /\ result.chart = None
             /\ Len(result.formatted_text) = 1
             /\ result.formatted_text[1][1] = "Unsupported"
             /\ {result.formatted_text[1][2][i] : i \in 1..Len(result.formatted_text[1][2])}
                    = ClaimedCodes
             /\ houses_ex_calls = <<>>
             /\ calc_ut_calls = <<>>

\* "D13" was requested and refused
C3_Witness ==
    /\ pc = "returned"
    /\ call.op = "get_divisional_chart"
    /\ call.chart_type = "D13"
    /\ result.chart = None

\* C7: the Sun is never reported combust by compare_transits.
C7_SunNeverCombust ==
    TransitReturned => ~DictGet(result.transit_data, "Sun").combust

\* C8: for each of the 9 bodies compare_transits reports the zodiac sign of
\* the body's current longitude and the number of the first house of the
\* given natal chart carrying that sign, None when there is none; the natal
\* chart is left as it was passed.
C8_TransitHouseLookedUpInNatal ==
    TransitReturned =>
        LET natal == call.natal_chart
            data == result.transit_data
        IN  /\ DictKeys(data) = PLANETS
            /\ natal_chart = Some(natal)
            /\ \A i \in 1..Len(calc_ut_calls) :
                  DictGet(data, calc_ut_calls[i].body).transit_longitude = calc_ut_calls[i].lon
            /\ \A i \in 1..Len(data) :
                  LET sign == SignAt(data[i].transit_longitude)
                      hits == {h \in 1..Len(natal.houses) : natal.houses[h].sign = sign}
                  IN  /\ data[i].transit_sign = sign
                      /\ data[i].transit_house =
                            IF hits = {} THEN None
                            ELSE Some(natal.houses[CHOOSE h \in hits : \A g \in hits : h <= g].number)

\* a natal chart with houses missing: one body finds its house, another none
C8_Witness ==
    /\ TransitReturned
    /\ Len(call.natal_chart.houses) < 12
    /\ \E i \in 1..Len(result.transit_data) : result.transit_data[i].transit_house = None
    /\ \E i \in 1..Len(result.transit_data) : result.transit_data[i].transit_house # None

\* C9: both builders hand the house-cusp query a latitude in [-90, 90] and a
\* longitude in [-180, 180], the input itself when it is in range.
C9_CoordinatesClamped ==
    (BuilderReturned /\ houses_ex_calls # <<>>) =>
        /\ houses_ex_calls[1].lat >= -90 /\ houses_ex_calls[1].lat <= 90
        /\ houses_ex_calls[1].lon >= -180 /\ houses_ex_calls[1].lon <= 180
        /\ (call.lat >= -90 /\ call.lat <= 90) => houses_ex_calls[1].lat = call.lat
        /\ (call.lon >= -180 /\ call.lon <= 180) => houses_ex_calls[1].lon = call.lon

\* C9 holds of get_divisional_chart, the one builder that calls
\* sanitize_coordinates.
C9_DivisionalChartClamps ==
    call.op = "get_divisional_chart" => C9_CoordinatesClamped

----------------------------------------------------------------------------
\* Dasha timeline engine (vedic.py).  Instants and durations are counted in
\* ticks of 365.25 / 40 days, so that a year is NAKSHATRA_SPAN ticks and the
\* remaining fraction of the first period is a whole number of ticks;
\* timedelta's rounding to the microsecond is not modelled.

DASHA_SEQUENCE ==
    <<[name |-> "Ketu", years |-> 7], [name |-> "Venus", years |-> 20],
      [name |-> "Sun", years |-> 6], [name |-> "Moon", years |-> 10],
      [name |-> "Mars", years |-> 7], [name |-> "Rahu", years |-> 18],
      [name |-> "Jupiter", years |-> 16], [name |-> "Saturn", years |-> 19],
      [name |-> "Mercury", years |-> 17]>>

\* a variant whose table is one lord out of step: it starts at Venus
NAKSHATRA_TO_DASHA_LORD_from_venus ==
    [i \in 1..(3 * Len(DASHA_SEQUENCE)) |-> DASHA_SEQUENCE[(i % Len(DASHA_SEQUENCE)) + 1].name]

\* [seq[0] for seq in DASHA_SEQUENCE] * 3
NAKSHATRA_TO_DASHA_LORD ==
    [i \in 1..(3 * Len(DASHA_SEQUENCE)) |-> DASHA_SEQUENCE[((i - 1) % Len(DASHA_SEQUENCE)) + 1].name]

\* 13 + 1/3 degrees
NAKSHATRA_SPAN == Deg(13) + 1

YearTicks == NAKSHATRA_SPAN

DASHA_ITERATIONS == 50

\* a variant with a year one tick short
years_to_ticks_short_year(years) == years * (YearTicks - 1)

\* timedelta(days=years * 365.25) for a whole number of years
years_to_ticks(years) == years * YearTicks

\* mutant: the elapsed part of the nakshatra taken for the remaining part
first_dasha_elapsed_ticks(moon_longitude, lord_duration) ==
    PyMod(moon_longitude, NAKSHATRA_SPAN) * lord_duration

\* lines 149-151 and 171: timedelta(days=portion_remaining * lord_duration * 365.25)
first_dasha_remaining_ticks(moon_longitude, lord_duration) ==
    LET degree_within_nakshatra == PyMod(moon_longitude, NAKSHATRA_SPAN)
    IN  (NAKSHATRA_SPAN - degree_within_nakshatra) * lord_duration

\* mutant: the test on the lord is inverted, so the walk starts at Ketu
skip_lord_itself(mahadasha_found, planet, nakshatra_lord) ==
    ~mahadasha_found /\ planet = nakshatra_lord

\* lines 164-169: the "continue" branch
skip_until_start(mahadasha_found, planet, nakshatra_lord) ==
    ~mahadasha_found /\ planet # nakshatra_lord

\* line 180
reference_in_period(start, reference_date, end) ==
    start <= reference_date /\ reference_date <= end

\* lines 159-189; st holds start, current_mahadasha, mahadasha_found, all_dashas
RECURSIVE get_mahadasha_loop(_, _, _, _, _)
get_mahadasha_loop(i, st, nakshatra_lord, first_ticks, reference_date) ==
    IF i >= DASHA_ITERATIONS
    THEN st
    ELSE LET entry == DASHA_SEQUENCE[(i % Len(DASHA_SEQUENCE)) + 1]
             planet == entry.name
             duration_years == entry.years
         IN  IF skip_until_start(st.mahadasha_found, planet, nakshatra_lord)
             THEN get_mahadasha_loop(i + 1, st, nakshatra_lord, first_ticks, reference_date)
             ELSE LET actual_ticks ==
                          IF ~st.mahadasha_found /\ planet = nakshatra_lord
                          THEN first_ticks
                          ELSE years_to_ticks(duration_years)
                      start == st.start
                      end == start + actual_ticks
                      dasha == [lord |-> planet, start |-> start, end |-> end,
                                duration_years |-> duration_years]
                      current ==
                          IF reference_in_period(start, reference_date, end)
                          THEN Some([planet |-> planet, start_date |-> start,
                                     end_date |-> end, duration_years |-> duration_years])
                          ELSE st.current_mahadasha
                  IN  get_mahadasha_loop(i + 1,
                          [start |-> end, current_mahadasha |-> current,
                           mahadasha_found |-> TRUE,
                           all_dashas |-> Append(st.all_dashas, dasha)],
                          nakshatra_lord, first_ticks, reference_date)

get_mahadasha(moon_longitude, birth_datetime, reference_date) ==
    LET nakshatra_index == FloorDiv(moon_longitude, NAKSHATRA_SPAN)
        nakshatra_lord == NAKSHATRA_TO_DASHA_LORD[nakshatra_index + 1]
        lord_duration == DictGet(DASHA_SEQUENCE, nakshatra_lord).years
        first_ticks == first_dasha_remaining_ticks(moon_longitude, lord_duration)
        st == get_mahadasha_loop(0,
                  [start |-> birth_datetime, current_mahadasha |-> None,
                   mahadasha_found |-> FALSE, all_dashas |-> <<>>],
                  nakshatra_lord, first_ticks, reference_date)
    IN  [reference_date |-> reference_date,
         current_mahadasha |-> st.current_mahadasha,
         all_dashas |-> st.all_dashas]

----------------------------------------------------------------------------
\* The dasha entry point under every Moon longitude of the grid

MaxBirth == 1
MaxRefPeriods == 2

MoonInputs == 0..(Circle - 1)
BirthInputs == 0..MaxBirth

\* readings of datetime.now(): just before, at and just after the birth
\* instant and the closing instants of the first and last periods
ReferenceInputs(moon_longitude, birth_datetime) ==
    LET all == get_mahadasha(moon_longitude, birth_datetime, birth_datetime).all_dashas
        near == {k \in 1..Len(all) : k <= MaxRefPeriods \/ k > Len(all) - MaxRefPeriods}
    IN  {birth_datetime + d : d \in {-1, 0, 1}}
        \cup {all[k].end + d : k \in near, d \in {-1, 0, 1}}

InitDasha == Init

GetMahadasha ==
    /\ pc = "idle"
    /\ \E moon \in MoonInputs, birth \in BirthInputs :
          \E ref \in ReferenceInputs(moon, birth) :
             /\ call' = [op |-> "get_mahadasha", moon_longitude |-> moon,
                         birth_datetime |-> birth, reference_date |-> ref]
             /\ result' = get_mahadasha(moon, birth, ref)
    /\ pc' = "returned"
    /\ UNCHANGED <<sid_mode, houses_ex_calls, calc_ut_calls, natal_chart>>

NextDasha == GetMahadasha \/ Return

SpecDasha == InitDasha /\ [][NextDasha]_vars

DashaReturned == pc = "returned" /\ call.op = "get_mahadasha"

C5_AtLeastFiftyPeriods ==
    DashaReturned => Len(result.all_dashas) >= 50

\* C5 as amended: 50 - k periods are emitted, k being the place (0..8) of the
\* natal nakshatra's lord in the 9-lord sequence; 50 only under Ketu, 42 under
\* Mercury.
C5_FiftyLessSkippedPeriods ==
    DashaReturned =>
        Len(result.all_dashas) = 50 - ((call.moon_longitude \div NAKSHATRA_SPAN) % 9)

\* a Moon in Rohini (45 degrees, lord Moon): 47 periods
C5_Witness ==
    /\ DashaReturned
    /\ call.moon_longitude = Deg(45)
    /\ Len(result.all_dashas) = 47

\* C6: current_mahadasha is the one period whose interval [start, end)
\* holds the reference instant, and None when the reference instant is before
\* birth or at or after the end of the last period.
C6_CurrentIsHalfOpenPeriod ==
    DashaReturned =>
        LET all == result.all_dashas
            ref == call.reference_date
            hits == {i \in 1..Len(all) : all[i].start <= ref /\ ref < all[i].end}
        IN  IF hits = {}
            THEN result.current_mahadasha = None
            ELSE /\ Cardinality(hits) = 1
                 /\ \A i \in hits :
                       result.current_mahadasha =
                           Some([planet |-> all[i].lord, start_date |-> all[i].start,
                                 end_date |-> all[i].end,
                                 duration_years |-> all[i].duration_years])

\* C6 holds of the code whenever the reference instant is not the closing
\* instant of the last period.
C6_ExceptAtLastEnd ==
    (DashaReturned /\ call.reference_date # result.all_dashas[Len(result.all_dashas)].end)
        => C6_CurrentIsHalfOpenPeriod

----------------------------------------------------------------------------
\* Yoga detectors (vedic.get_yogas, utils.detect_yogas).  A yoga is a tuple:
\* its name, then the bodies the text names.  Neither routine has a raise
\* statement, and every access to a body is guarded ("in", dict.get), so the
\* error slot of what they return is always None.

debilitated_planets ==
    <<[name |-> "Sun", sign |-> "Libra"], [name |-> "Moon", sign |-> "Scorpio"],
      [name |-> "Mars", sign |-> "Cancer"], [name |-> "Mercury", sign |-> "Pisces"],
      [name |-> "Jupiter", sign |-> "Capricorn"], [name |-> "Venus", sign |-> "Virgo"],
      [name |-> "Saturn", sign |-> "Aries"]>>

exalted_planets ==
    <<[name |-> "Sun", sign |-> "Aries"], [name |-> "Moon", sign |-> "Taurus"],
      [name |-> "Mars", sign |-> "Capricorn"], [name |-> "Mercury", sign |-> "Virgo"],
      [name |-> "Jupiter", sign |-> "Cancer"], [name |-> "Venus", sign |-> "Pisces"],
      [name |-> "Saturn", sign |-> "Libra"]>>

\* lines 346-358 of vedic.py: if a in p and b in p: if p[a].sign == p[b].sign
same_sign_rule(p, a, b, yoga) ==
    IF DictHas(p, a) /\ DictHas(p, b) /\ DictGet(p, a).sign = DictGet(p, b).sign
    THEN <<yoga>>
    ELSE <<>>

\* a variant that accepts an exalted body in any sign
neecha_bhanga_for_any_exalted(p, planet) ==
    LET others == {i \in 1..Len(exalted_planets) :
                      /\ DictHas(p, exalted_planets[i].name)
                      /\ DictGet(p, exalted_planets[i].name).sign = exalted_planets[i].sign}
    IN  IF others = {}
        THEN <<>>
        ELSE <<<<"Neecha Bhanga Raja Yoga", planet,
                 exalted_planets[CHOOSE i \in others : \A j \in others : i <= j].name>>>>

\* lines 382-389: the first other body, in table order, that cancels
neecha_bhanga_for(p, planet) ==
    LET others == {i \in 1..Len(exalted_planets) :
                      /\ DictHas(p, exalted_planets[i].name)
                      /\ DictGet(p, exalted_planets[i].name).sign = exalted_planets[i].sign
                      /\ DictGet(p, exalted_planets[i].name).sign = DictGet(p, planet).sign}
    IN  IF others = {}
        THEN <<>>
        ELSE <<<<"Neecha Bhanga Raja Yoga", planet,
                 exalted_planets[CHOOSE i \in others : \A j \in others : i <= j].name>>>>

\* lines 379-389
RECURSIVE neecha_bhanga_loop(_, _)
neecha_bhanga_loop(p, i) ==
    IF i > Len(debilitated_planets)
    THEN <<>>
    ELSE (IF DictHas(p, debilitated_planets[i].name)
             /\ DictGet(p, debilitated_planets[i].name).sign = debilitated_planets[i].sign
          THEN neecha_bhanga_for(p, debilitated_planets[i].name)
          ELSE <<>>)
         \o neecha_bhanga_loop(p, i + 1)

\* a variant that chains the three same-sign rules with elif
get_yogas_first_rule_only(chart) ==
    LET p == chart.planets
        gaja_kesari == same_sign_rule(p, "Jupiter", "Moon", <<"Gaja-Kesari Yoga">>)
        budh_aditya == same_sign_rule(p, "Sun", "Mercury", <<"Budh-Aditya Yoga">>)
        chandra_mangal == same_sign_rule(p, "Moon", "Mars", <<"Chandra-Mangal Yoga">>)
    IN  [error |-> None,
         yogas |-> (IF gaja_kesari # <<>> THEN gaja_kesari
                    ELSE IF budh_aditya # <<>> THEN budh_aditya
                    ELSE chandra_mangal)
                   \o neecha_bhanga_loop(p, 1)]

get_yogas(chart) ==
    LET p == chart.planets
    IN  [error |-> None,
         yogas |-> same_sign_rule(p, "Jupiter", "Moon", <<"Gaja-Kesari Yoga">>)
                   \o same_sign_rule(p, "Sun", "Mercury", <<"Budh-Aditya Yoga">>)
                   \o same_sign_rule(p, "Moon", "Mars", <<"Chandra-Mangal Yoga">>)
                   \o neecha_bhanga_loop(p, 1)]

\* utils.py lines 64-67: planet_houses[planet] = house.number, house by house
RECURSIVE planet_houses_of(_, _, _)
planet_houses_of(houses, i, acc) ==
    IF i > Len(houses)
    THEN acc
    ELSE LET RECURSIVE inner(_, _)
             inner(j, a) ==
                 IF j > Len(houses[i].planets)
                 THEN a
                 ELSE inner(j + 1, DictPut(a, [name |-> houses[i].planets[j],
                                               house |-> houses[i].number]))
         IN  planet_houses_of(houses, i + 1, inner(1, acc))

\* planet_signs.get(name) == sign
planet_sign_is(planet_signs, name, sign) ==
    DictHas(planet_signs, name) /\ DictGet(planet_signs, name).sign = sign

kendra_houses == {1, 4, 7, 10}

\* a variant that takes the kendras for trikonas too
trikona_houses_with_kendras == {1, 4, 5, 7, 9, 10}

trikona_houses == {1, 5, 9}

\* utils.py lines 84-89: one entry per p1 that finds a partner
raj_yoga_entries(planet_houses) ==
    LET hit(i) == /\ planet_houses[i].house \in kendra_houses
                  /\ \E k \in 1..Len(planet_houses) :
                        /\ planet_houses[k].name # planet_houses[i].name
                        /\ planet_houses[k].house = planet_houses[i].house
                        /\ planet_houses[k].house \in trikona_houses
        hits == SelectSeq([i \in 1..Len(planet_houses) |-> i], hit)
    IN  [n \in 1..Len(hits) |-> <<"Raj Yoga">>]

\* a variant that tests the signed difference
gajakesari_test_signed(jupiter_house, moon_house) ==
    (jupiter_house - moon_house) \in {0, 3, 6, 9}

\* utils.py line 73
gajakesari_test(jupiter_house, moon_house) ==
    Abs(jupiter_house - moon_house) \in {0, 3, 6, 9}

detect_yogas(chart) ==
    LET planet_signs == chart.planets
        planet_houses == planet_houses_of(chart.houses, 1, <<>>)
        has(n) == DictHas(planet_houses, n)
        house(n) == DictGet(planet_houses, n).house
    IN  [error |-> None,
         yogas |->
            (IF has("Jupiter") /\ has("Moon") /\ gajakesari_test(house("Jupiter"), house("Moon"))
             THEN <<<<"Gajakesari Yoga">>>> ELSE <<>>)
            \o (IF has("Sun") /\ has("Mercury") /\ house("Sun") = house("Mercury")
                THEN <<<<"Budhaditya Yoga">>>> ELSE <<>>)
            \o raj_yoga_entries(planet_houses)
            \o (IF planet_sign_is(planet_signs, "Mercury", "Pisces")
                   /\ (planet_sign_is(planet_signs, "Venus", "Pisces")
                       \/ planet_sign_is(planet_signs, "Jupiter", "Pisces"))
                THEN <<<<"Neechabhanga Raja Yoga (Mercury)">>>> ELSE <<>>)
            \o (IF has("Moon") /\ has("Mars") /\ house("Moon") = house("Mars")
                THEN <<<<"Chandra-Mangal Yoga">>>> ELSE <<>>)]

----------------------------------------------------------------------------
\* The yoga detectors on charts with the bodies in chosen signs, complete or
\* lacking one body

\* the signs each body is tried in
YogaSignChoices(name) ==
    CASE name = "Sun" -> <<"Libra", "Aries">>
      [] name = "Moon" -> <<"Cancer", "Taurus">>
      [] name = "Mars" -> <<"Cancer", "Capricorn">>
      [] name = "Mercury" -> <<"Pisces", "Virgo", "Libra">>
      [] name = "Jupiter" -> <<"Cancer", "Capricorn">>
      [] name = "Venus" -> <<"Pisces", "Virgo">>
      [] name = "Saturn" -> <<"Libra", "Aries">>
      [] name = "Rahu" -> <<"Aries", "Cancer">>

YogaSignTables ==
    {[n \in QueriedBodies |-> YogaSignChoices(n)[pick[n]]] :
        pick \in {f \in [QueriedBodies -> {1, 2, 3}] :
                     \A n \in QueriedBodies : f[n] <= Len(YogaSignChoices(n))}}

OppositeSign(sign) == ZODIAC_SIGNS[((IndexOf(ZODIAC_SIGNS, sign) + 6) % 12) + 1]
SignOfBody(signs, name) == IF name = "Ketu" THEN OppositeSign(signs["Rahu"]) ELSE signs[name]
MidSign(sign) == IndexOf(ZODIAC_SIGNS, sign) * SignSpan + Deg(15)

\* a chart as get_birth_chart lays it out, without the bodies in missing
RECURSIVE YogaChartLoop(_, _, _, _, _)
YogaChartLoop(signs, missing, i, houses, planets) ==
    IF i > Len(PLANETS)
    THEN [houses |-> houses, planets |-> planets]
    ELSE IF PLANETS[i] \in missing
         THEN YogaChartLoop(signs, missing, i + 1, houses, planets)
         ELSE LET sign == SignOfBody(signs, PLANETS[i])
              IN  YogaChartLoop(signs, missing, i + 1,
                      append_to_house(houses, PLANETS[i], sign),
                      DictPut(planets, Planet(PLANETS[i], MidSign(sign), sign, FALSE)))

YogaChart(asc, signs, missing) ==
    LET house_signs == get_house_signs(asc)
        built == YogaChartLoop(signs, missing, 1,
                     [i \in 1..Len(house_signs) |-> House(i, house_signs[i])], <<>>)
    IN  Chart(get_zodiac_sign(asc), asc, built.houses, built.planets, "D1")

MissingInputs == {{}} \cup {{b} : b \in Bodies}

InitYoga == Init

GetYogas ==
    /\ pc = "idle"
    /\ \E asc \in AscAnswers, signs \in YogaSignTables, missing \in MissingInputs :
          /\ call' = [op |-> "get_yogas", chart |-> YogaChart(asc, signs, missing)]
          /\ result' = get_yogas(YogaChart(asc, signs, missing))
    /\ pc' = "returned"
    /\ UNCHANGED <<sid_mode, houses_ex_calls, calc_ut_calls, natal_chart>>

DetectYogas ==
    /\ pc = "idle"
    /\ \E asc \in AscAnswers, signs \in YogaSignTables, missing \in MissingInputs :
          /\ call' = [op |-> "detect_yogas", chart |-> YogaChart(asc, signs, missing)]
          /\ result' = detect_yogas(YogaChart(asc, signs, missing))
    /\ pc' = "returned"
    /\ UNCHANGED <<sid_mode, houses_ex_calls, calc_ut_calls, natal_chart>>

NextYoga == GetYogas \/ DetectYogas \/ Return

SpecYoga == InitYoga /\ [][NextYoga]_vars

YogaReturned == pc = "returned" /\ call.op \in {"get_yogas", "detect_yogas"}

\* the bodies a yoga rule of both routines names
RuleBodies == {"Sun", "Moon", "Mars", "Mercury", "Jupiter", "Venus"}
MissingRuleBodies(chart) == {b \in RuleBodies : ~DictHas(chart.planets, b)}

\* C10: a yoga routine handed a chart that lacks a body its rules name fails
\* with an error naming a missing body, instead of returning a yoga list.
C10_MissingBodyFailsLoudly ==
    (YogaReturned /\ MissingRuleBodies(call.chart) # {}) =>
        /\ result.error # None
        /\ result.error[1] \in MissingRuleBodies(call.chart)

----------------------------------------------------------------------------
\* Concurrent callers (chat.py, main.py): the entry points run in several
\* threads against the one swisseph library, interleaved between any two
\* library calls.  Here pc, call, result and the two call logs are functions
\* of the thread; sid_mode is the library's single mode.  What the library
\* answers plays no part: only the mode each query runs under is carried.

NumThreads == 2
Threads == 1..NumThreads

set_sid_mode_step(mode) == [kind |-> "set_sid_mode", mode |-> mode]
houses_ex_step == [kind |-> "houses_ex", sidereal |-> TRUE]
calc_ut_step(body, sidereal) == [kind |-> "calc_ut", body |-> body, sidereal |-> sidereal]

\* the library calls of each routine, in program order
get_ascendant_steps == <<set_sid_mode_step(SIDM_LAHIRI), houses_ex_step>>

get_planet_positions_steps ==
    LET names == SelectSeq(PLANETS, LAMBDA n : n # "Ketu")
    IN  <<set_sid_mode_step(SIDM_LAHIRI)>>
        \o [i \in 1..Len(names) |-> calc_ut_step(names[i], TRUE)]

get_birth_chart_steps == get_ascendant_steps \o get_planet_positions_steps

get_divisional_chart_steps(chart_type) ==
    IF chart_type \in SupportedCodes
    THEN <<set_sid_mode_step(SIDM_LAHIRI), houses_ex_step>> \o get_planet_positions_steps
    ELSE <<>>

compare_transits_steps == <<set_sid_mode_step(SIDM_LAHIRI)>> \o get_planet_positions_steps

\* a variant that reads the sidereal Moon and Sun before it sets the mode
get_panchanga_steps_query_first ==
    <<calc_ut_step("Moon", TRUE), calc_ut_step("Sun", TRUE),
      set_sid_mode_step(SIDM_LAHIRI),
      calc_ut_step("Moon", FALSE), calc_ut_step("Sun", FALSE)>>

\* the last two reads are tropical: they carry no FLG_SIDEREAL
get_panchanga_steps ==
    <<set_sid_mode_step(SIDM_LAHIRI),
      calc_ut_step("Moon", TRUE), calc_ut_step("Sun", TRUE),
      calc_ut_step("Moon", FALSE), calc_ut_step("Sun", FALSE)>>

ConcurrentCalls ==
    {[op |-> "get_birth_chart"], [op |-> "compare_transits"], [op |-> "get_panchanga"]}
    \cup {[op |-> "get_divisional_chart", chart_type |-> t] : t \in {"D9", "D13"}}

StepsOf(c) ==
    CASE c.op = "get_birth_chart" -> get_birth_chart_steps
      [] c.op = "get_divisional_chart" -> get_divisional_chart_steps(c.chart_type)
      [] c.op = "compare_transits" -> compare_transits_steps
      [] c.op = "get_panchanga" -> get_panchanga_steps
      [] OTHER -> <<>>

\* the library call thread t is about to make, if any
AtStep(t, kind) ==
    /\ pc[t] \in 1..Len(StepsOf(call[t]))
    /\ StepsOf(call[t])[pc[t]].kind = kind
CurrentStep(t) == StepsOf(call[t])[pc[t]]

InitConcurrent ==
    /\ pc = [t \in Threads |-> 0]
    /\ call = [t \in Threads |-> NoCall]
    /\ result = [t \in Threads |-> NoResult]
    /\ sid_mode = SIDM_DEFAULT
    /\ houses_ex_calls = [t \in Threads |-> <<>>]
    /\ calc_ut_calls = [t \in Threads |-> <<>>]
    /\ natal_chart = None

\* a request arrives and thread t enters an entry point
Invoke(t) ==
    /\ pc[t] = 0
    /\ \E c \in ConcurrentCalls : call' = [call EXCEPT ![t] = c]
    /\ pc' = [pc EXCEPT ![t] = 1]
    /\ UNCHANGED <<result, sid_mode, houses_ex_calls, calc_ut_calls, natal_chart>>

SetSidMode(t) ==
    /\ AtStep(t, "set_sid_mode")
    /\ sid_mode' = CurrentStep(t).mode
    /\ pc' = [pc EXCEPT ![t] = @ + 1]
    /\ UNCHANGED <<call, result, houses_ex_calls, calc_ut_calls, natal_chart>>

\* swe.houses_ex with FLG_SIDEREAL: answers under the mode in force
HousesEx(t) ==
    /\ AtStep(t, "houses_ex")
    /\ houses_ex_calls' = [houses_ex_calls EXCEPT ![t] = Append(@, [mode |-> sid_mode])]
    /\ pc' = [pc EXCEPT ![t] = @ + 1]
    /\ UNCHANGED <<call, result, sid_mode, calc_ut_calls, natal_chart>>

\* swe.calc_ut: answers under the mode in force when FLG_SIDEREAL is given
CalcUt(t) ==
    /\ AtStep(t, "calc_ut")
    /\ calc_ut_calls' =
          [calc_ut_calls EXCEPT ![t] =
              Append(@, [body |-> CurrentStep(t).body,
                         sidereal |-> CurrentStep(t).sidereal,
                         mode |-> sid_mode])]
    /\ pc' = [pc EXCEPT ![t] = @ + 1]
    /\ UNCHANGED <<call, result, sid_mode, houses_ex_calls, natal_chart>>

\* the entry point returns and the thread is free again
ThreadReturn(t) ==
    /\ pc[t] = Len(StepsOf(call[t])) + 1
    /\ pc' = [pc EXCEPT ![t] = 0]
    /\ call' = [call EXCEPT ![t] = NoCall]
    /\ houses_ex_calls' = [houses_ex_calls EXCEPT ![t] = <<>>]
    /\ calc_ut_calls' = [calc_ut_calls EXCEPT ![t] = <<>>]
    /\ UNCHANGED <<result, sid_mode, natal_chart>>

NextConcurrent ==
    \E t \in Threads :
        Invoke(t) \/ SetSidMode(t) \/ HousesEx(t) \/ CalcUt(t) \/ ThreadReturn(t)

SpecConcurrent == InitConcurrent /\ [][NextConcurrent]_vars

\* the sidereal queries thread t has made in its current call
SiderealQueries(t) ==
    {houses_ex_calls[t][i] : i \in 1..Len(houses_ex_calls[t])}
    \cup {q \in {calc_ut_calls[t][i] : i \in 1..Len(calc_ut_calls[t])} : q.sidereal}

\* C11: with the entry points running concurrently and interleaved between
\* any two ephemeris calls, every sidereal query (a body position or the
\* ascendant) runs while the shared mode is Lahiri, and the shared mode is
\* never set to anything but Lahiri.
C11_SiderealQueriesUnderLahiri ==
    /\ sid_mode \in {SIDM_DEFAULT, SIDM_LAHIRI}
    /\ \A t \in Threads : \A q \in SiderealQueries(t) : q.mode = SIDM_LAHIRI

\* two threads are inside different entry points at once, each with sidereal
\* queries already made
C11_Witness ==
    \E t, u \in Threads :
        /\ t # u
        /\ call[t].op = "get_birth_chart" /\ Len(calc_ut_calls[t]) = 3
        /\ call[u].op = "get_panchanga" /\ Len(calc_ut_calls[u]) = 2
        /\ houses_ex_calls[t] # <<>>

----------------------------------------------------------------------------
\* The divisional sign of a longitude (vedicutils.py), called on its own:
\* every longitude of the grid in [0, 360), every supported division factor

LongitudeInputs == 0..(Circle - 1)
VargaDivisionInputs ==
    {SUPPORTED_DIVISIONAL_CHARTS[i].factor : i \in 1..Len(SUPPORTED_DIVISIONAL_CHARTS)}

InitVarga ==
    /\ pc = "idle"
    /\ call = NoCall
    /\ result = NoResult
    /\ sid_mode = SIDM_DEFAULT
    /\ houses_ex_calls = <<>>
    /\ calc_ut_calls = <<>>
    /\ natal_chart = None

GetDivisionalSign ==
    /\ pc = "idle"
    /\ \E original_degree \in LongitudeInputs, varga_division \in VargaDivisionInputs :
          /\ call' = [op |-> "get_divisional_sign", original_degree |-> original_degree,
                      varga_division |-> varga_division]
          /\ result' = get_divisional_sign(original_degree, varga_division)
    /\ pc' = "returned"
    /\ UNCHANGED <<sid_mode, houses_ex_calls, calc_ut_calls, natal_chart>>

NextVarga == GetDivisionalSign \/ Return

SpecVarga == InitVarga /\ [][NextVarga]_vars

VargaReturned(n) ==
    pc = "returned" /\ call.op = "get_divisional_sign" /\ call.varga_division = n

\* the sign k signs after a sign
SignAfter(sign, k) == ZODIAC_SIGNS[((IndexOf(ZODIAC_SIGNS, sign) + k) % 12) + 1]

\* the part of its sign a longitude of [0, 360) falls in, of n equal parts (0-based)
PartOfSign(longitude, n) == ((longitude % SignSpan) * n) \div SignSpan

\* C12: get_divisional_sign(L, 3) is the classical drekkana: the first, second
\* and third 10-degree part of a sign map to the sign itself, the 5th sign
\* from it and the 9th sign from it.
C12_DrekkanaIsClassical ==
    VargaReturned(3) =>
        result = SignAfter(SignAt(call.original_degree), 4 * PartOfSign(call.original_degree, 3))

\* the sign the classical navamsa count of a sign starts from
NavamsaStart(sign) ==
    CASE sign \in {"Aries", "Leo", "Sagittarius"} -> "Aries"
      [] sign \in {"Taurus", "Virgo", "Capricorn"} -> "Capricorn"
      [] sign \in {"Gemini", "Libra", "Aquarius"} -> "Libra"
      [] sign \in {"Cancer", "Scorpio", "Pisces"} -> "Cancer"

\* C13: get_divisional_sign(L, 9) is the classical navamsa: the nine parts of
\* 3 1/3 degrees of a sign are counted consecutively from Aries for a fire
\* sign, from Capricorn for an earth sign, from Libra for an air sign and from
\* Cancer for a water sign.
C13_NavamsaIsClassical ==
    VargaReturned(9) =>
        result = SignAfter(NavamsaStart(SignAt(call.original_degree)),
                           PartOfSign(call.original_degree, 9))

\* the last navamsa of Cancer (a water sign) is Pisces, 8 signs after Cancer
C13_Witness ==
    /\ VargaReturned(9)
    /\ call.original_degree = Deg(120) - 1
    /\ result = "Pisces"

----------------------------------------------------------------------------
\* Lords and lengths of the dasha periods (SpecDasha)

\* the natal nakshatra (0..26) of the call, and the part of it the Moon has
\* already crossed, in grid units (a nakshatra is 360/27 degrees)
NatalNakshatra == (call.moon_longitude * 27) \div Circle
ElapsedInNakshatra == call.moon_longitude - NatalNakshatra * (Circle \div 27)

\* the table value, in years, of a lord
LordYears(lord) == DictGet(DASHA_SEQUENCE, lord).years

PeriodTicks(dasha) == dasha.end - dasha.start

\* C14: with n the natal nakshatra and k = n mod 9, the i-th emitted period
\* (from 0) has the lord at place (k + i) mod 9 of the 9-lord sequence.
C14_LordsFollowTheCycle ==
    DashaReturned =>
        \A i \in 1..Len(result.all_dashas) :
            result.all_dashas[i].lord
                = DASHA_SEQUENCE[(((NatalNakshatra % 9) + (i - 1)) % 9) + 1].name

\* a Moon at 45 degrees (nakshatra 3): Moon first, Ketu six periods later as
\* the cycle wraps, Moon again after nine
C14_Witness ==
    /\ DashaReturned
    /\ call.moon_longitude = Deg(45)
    /\ result.all_dashas[1].lord = "Moon"
    /\ result.all_dashas[7].lord = "Ketu"
    /\ result.all_dashas[10].lord = "Moon"

C16_DurationMatchesInterval ==
    DashaReturned =>
        /\ \A i \in 1..Len(result.all_dashas) :
               result.all_dashas[i].duration_years * YearTicks
                   = PeriodTicks(result.all_dashas[i])
        /\ result.current_mahadasha # None =>
               result.current_mahadasha[1].duration_years * YearTicks
                   = result.current_mahadasha[1].end_date
                       - result.current_mahadasha[1].start_date

\* C16 holds of the code for a Moon on a nakshatra boundary, where the first
\* period runs its full term.
C16_HoldsOnBoundary ==
    (DashaReturned /\ ElapsedInNakshatra = 0) => C16_DurationMatchesInterval

----------------------------------------------------------------------------
\* The combustion test (vedicutils.py), called on its own: every body, every
\* longitude of the grid for the body, a few longitudes for the Sun

SunSamples == 4
SunStride == Deg(97) + 1
SunInputs == {PyMod(k * SunStride, Circle) : k \in 0..(SunSamples - 1)}

InitCombust ==
    /\ pc = "idle"
    /\ call = NoCall
    /\ result = NoResult
    /\ sid_mode = SIDM_DEFAULT
    /\ houses_ex_calls = <<>>
    /\ calc_ut_calls = <<>>
    /\ natal_chart = None

IsCombust ==
    /\ pc = "idle"
    /\ \E planet_name \in Bodies, planet_deg \in LongitudeInputs, sun_deg \in SunInputs :
          /\ call' = [op |-> "is_combust", planet_name |-> planet_name,
                      planet_deg |-> planet_deg, sun_deg |-> sun_deg]
          /\ result' = is_combust(planet_name, planet_deg, sun_deg)
    /\ pc' = "returned"
    /\ UNCHANGED <<sid_mode, houses_ex_calls, calc_ut_calls, natal_chart>>

NextCombust == IsCombust \/ Return

SpecCombust == InitCombust /\ [][NextCombust]_vars

CombustReturned == pc = "returned" /\ call.op = "is_combust"

\* the shortest arc between two longitudes of [0, 360): between 0 and 180 degrees
ShortestArc(a, b) == IF Abs(a - b) <= Circle - Abs(a - b) THEN Abs(a - b) ELSE Circle - Abs(a - b)

\* the limits the claim gives, in degrees
ClaimedCombustionDegrees(name) ==
    CASE name = "Mercury" -> 12 [] name = "Venus" -> 10 [] name = "Mars" -> 17
      [] name = "Jupiter" -> 11 [] name = "Saturn" -> 15 [] OTHER -> 8

\* C17: for a body other than the Sun, is_combust is true exactly when the
\* shortest arc between the two longitudes is strictly less than the body's
\* limit, and the answer is the same with the two longitudes swapped.
C17_CombustIffArcUnderLimit ==
    (CombustReturned /\ call.planet_name # "Sun") =>
        /\ result = (ShortestArc(call.planet_deg, call.sun_deg)
                        < ClaimedCombustionDegrees(call.planet_name) * UnitsPerDegree)
        /\ result = is_combust(call.planet_name, call.sun_deg, call.planet_deg)

\* Venus exactly 10 degrees from the Sun, across 0 degrees: not combust
C17_Witness ==
    /\ CombustReturned
    /\ call.planet_name = "Venus"
    /\ call.sun_deg = 0
    /\ call.planet_deg = Deg(350)
    /\ result = FALSE

----------------------------------------------------------------------------
\* The position set behind a returned chart or transit table (Spec)

PositionsReturned == ChartReturned \/ TransitReturned

\* what the caller sees of each body: its longitude and its retrograde flag
ReturnedPositions ==
    IF TransitReturned
    THEN [i \in 1..Len(result.transit_data) |->
             [name |-> result.transit_data[i].name,
              longitude |-> result.transit_data[i].transit_longitude,
              retrograde |-> result.transit_data[i].retrograde]]
    ELSE [i \in 1..Len(result.chart[1].planets) |->
             [name |-> result.chart[1].planets[i].name,
              longitude |-> result.chart[1].planets[i].longitude,
              retrograde |-> result.chart[1].planets[i].retrograde]]

\* the swe.calc_ut calls of the invocation that asked for a body
QueriesFor(b) == {i \in 1..Len(calc_ut_calls) : calc_ut_calls[i].body = b}

\* C18: in every position set, Ketu's longitude is Rahu's plus 180 degrees
\* modulo 360, inside [0, 360); the ephemeris is asked for 8 bodies and never
\* for Ketu; Rahu and Ketu are flagged retrograde whatever the node's speed;
\* every other body is flagged retrograde exactly when its speed is negative.
C18_KetuOppositeRahuNodesRetrograde ==
    PositionsReturned =>
        LET p == ReturnedPositions
        IN  /\ Len(calc_ut_calls) = 8
            /\ QueriesFor("Ketu") = {}
            /\ \A b \in Bodies \ {"Ketu"} : Cardinality(QueriesFor(b)) = 1
            /\ DictGet(p, "Ketu").longitude = (DictGet(p, "Rahu").longitude + Deg(180)) % Circle
            /\ DictGet(p, "Ketu").longitude \in 0..(Circle - 1)
            /\ DictGet(p, "Rahu").retrograde /\ DictGet(p, "Ketu").retrograde
            /\ \A b \in Bodies \ {"Rahu", "Ketu"} :
                   \A i \in QueriesFor(b) :
                       DictGet(p, b).retrograde = (calc_ut_calls[i].speed < 0)

\* a node moving forward at 300 degrees: Ketu at 120 degrees, both flagged
\* retrograde, with a direct Mars and a stationary Saturn not flagged
C18_Witness ==
    /\ TransitReturned
    /\ \E i \in QueriesFor("Rahu") :
          calc_ut_calls[i].speed > 0 /\ calc_ut_calls[i].lon = Deg(300)
    /\ \E i \in QueriesFor("Saturn") : calc_ut_calls[i].speed = 0
    /\ DictGet(ReturnedPositions, "Ketu").longitude = Deg(120)
    /\ DictGet(ReturnedPositions, "Rahu").retrograde
    /\ ~DictGet(ReturnedPositions, "Saturn").retrograde

----------------------------------------------------------------------------
\* Panchanga (vedic.get_panchanga).  The weekday and the Julian day are
\* functions of the date alone and are not carried.

NAKSHATRAS ==
    <<"Ashwini", "Bharani", "Krittika", "Rohini", "Mrigashira", "Ardra",
      "Punarvasu", "Pushya", "Ashlesha", "Magha", "Purva Phalguni",
      "Uttara Phalguni", "Hasta", "Chitra", "Swati", "Vishakha", "Anuradha",
      "Jyeshtha", "Mula", "Purva Ashadha", "Uttara Ashadha", "Shravana",
      "Dhanishta", "Shatabhisha", "Purva Bhadrapada", "Uttara Bhadrapada",
      "Revati">>

TithiNames ==
    <<"Pratipada", "Dvitiya", "Tritiya", "Chaturthi", "Panchami", "Shashthi",
      "Saptami", "Ashtami", "Navami", "Dashami", "Ekadashi", "Dvadashi",
      "Trayodashi", "Chaturdashi", "Purnima / Amavasya">>

\* [...] * 2
TITHIS == TithiNames \o TithiNames

KARANAS ==
    <<"Bava", "Balava", "Kaulava", "Taitila", "Garaja", "Vanija", "Vishti",
      "Bava", "Balava", "Kaulava", "Taitila", "Garaja", "Vanija", "Vishti",
      "Shakuni", "Chatushpada", "Naga", "Kimstughna">>

YOGAS ==
    <<"Vishkambha", "Priti", "Ayushman", "Saubhagya", "Shobhana", "Atiganda",
      "Sukarma", "Dhriti", "Shoola", "Ganda", "Vriddhi", "Dhruva", "Vyaghata",
      "Harshana", "Vajra", "Siddhi", "Vyatipata", "Variyana", "Parigha",
      "Shiva", "Siddha", "Sadhya", "Shubha", "Shukla", "Brahma", "Indra",
      "Vaidhriti">>

\* list[i]: the element, or nothing when Python raises IndexError; a negative
\* index counts from the end
ListGet(list, i) ==
    IF i >= -Len(list) /\ i < Len(list) THEN Some(list[PyMod(i, Len(list)) + 1]) ELSE None

\* A float of get_panchanga: a whole number of grid units, plus a part far
\* smaller than a grid unit, counted in units of 2^-45 degree (half the gap
\* between 360.0 and the double below it).  The rest of the model needs no
\* such part; here the sign of moon_pos - sun_pos decides what % 360 gives.
Float(units, tiny) == [units |-> units, tiny |-> tiny]

\* the gap between a longitude and the next double above it: at most 2^-45
\* degree below 256 degrees, 2^-44 degree from there on
UlpAbove(units) == IF units < Deg(256) THEN 1 ELSE 2

float_sub(a, b) == Float(a.units - b.units, a.tiny - b.tiny)
float_add(a, b) == Float(a.units + b.units, a.tiny + b.tiny)

\* x % 360 for a float x: Python adds 360.0 to a negative remainder, and the
\* sum is rounded to a double.  360 less at most 2^-45 rounds to 360.0 itself
\* (ties go to the even neighbour); 360 less 2^-44 is the double below 360.0.
float_mod_circle(x) ==
    IF x.units = 0 /\ x.tiny < 0
    THEN IF -x.tiny <= 1 THEN Float(Circle, 0) ELSE Float(Circle, -2)
    ELSE Float(PyMod(x.units, Circle), x.tiny)

\* floor(x / d) for a float x and a whole number d of grid units
float_floor_div(x, d) == FloorDiv(IF x.tiny < 0 THEN x.units - 1 ELSE x.units, d)

\* lines 213-230: the values of the index expressions of get_panchanga
get_panchanga_indices(moon_pos, sun_pos) ==
    LET tithi_angle == float_mod_circle(float_sub(moon_pos, sun_pos))
        total_long == float_mod_circle(float_add(sun_pos, moon_pos))
        in_nakshatra == Float(PyMod(moon_pos.units, NAKSHATRA_SPAN), moon_pos.tiny)
    IN  [tithi_angle |-> tithi_angle,
         tithi_index |-> float_floor_div(tithi_angle, Deg(12)),
         nak_index |-> float_floor_div(moon_pos, NAKSHATRA_SPAN),
         pada |-> float_floor_div(in_nakshatra, NAKSHATRA_SPAN \div 4) + 1,
         karana_index |-> PyMod(float_floor_div(tithi_angle, Deg(6)), Len(KARANAS)),
         total_long |-> total_long,
         yoga_index |-> float_floor_div(total_long, NAKSHATRA_SPAN)]

\* error holds the exception of a failed table lookup, value the dict returned
get_panchanga(moon_pos, sun_pos, moon_long, sun_long) ==
    LET l == get_panchanga_indices(moon_pos, sun_pos)
        tithi == ListGet(TITHIS, l.tithi_index)
        nakshatra == ListGet(NAKSHATRAS, l.nak_index)
        karana == ListGet(KARANAS, l.karana_index)
        yoga == ListGet(YOGAS, l.yoga_index)
    IN  IF None \in {tithi, nakshatra, karana, yoga}
        THEN [error |-> Some("IndexError"), value |-> None, indices |-> l]
        ELSE [error |-> None,
              value |-> Some([tithi |-> tithi[1], yoga |-> yoga[1], karana |-> karana[1],
                              nakshatra |-> nakshatra[1], nakshatra_pada |-> l.pada,
                              moon_longitude |-> moon_long, sun_longitude |-> sun_long,
                              moon_sidereal_longitude |-> moon_pos]),
              indices |-> l]

\* the four swe.calc_ut calls, the last two without FLG_SIDEREAL
get_panchanga_queries(moon_pos, sun_pos, moon_long, sun_long) ==
    <<[body |-> "Moon", sidereal |-> TRUE, mode |-> SIDM_LAHIRI, lon |-> moon_pos],
      [body |-> "Sun", sidereal |-> TRUE, mode |-> SIDM_LAHIRI, lon |-> sun_pos],
      [body |-> "Moon", sidereal |-> FALSE, mode |-> SIDM_LAHIRI, lon |-> moon_long],
      [body |-> "Sun", sidereal |-> FALSE, mode |-> SIDM_LAHIRI, lon |-> sun_long]>>

\* the ayanamsa in force: what the tropical answer is ahead of the sidereal one
Ayanamsa == Deg(24)
TropicalOf(x) == Float(PyMod(x.units + Ayanamsa, Circle), x.tiny)

\* answers of swe.calc_ut for the sidereal Moon and Sun: the Moon on the grid,
\* the Sun on a sampled grid value or up to MaxSunUlps doubles above it
MaxSunUlps == 1
MoonAnswers == {Float(u, 0) : u \in LongitudeInputs}
SunAnswers == {Float(u, k * UlpAbove(u)) : u \in SunInputs, k \in 0..MaxSunUlps}

InitPanchanga ==
    /\ pc = "idle"
    /\ call = NoCall
    /\ result = NoResult
    /\ sid_mode = SIDM_DEFAULT
    /\ houses_ex_calls = <<>>
    /\ calc_ut_calls = <<>>
    /\ natal_chart = None

GetPanchanga ==
    /\ pc = "idle"
    /\ \E moon_pos \in MoonAnswers, sun_pos \in SunAnswers :
          /\ call' = [op |-> "get_panchanga"]
          /\ result' = get_panchanga(moon_pos, sun_pos, TropicalOf(moon_pos), TropicalOf(sun_pos))
          /\ calc_ut_calls' =
                get_panchanga_queries(moon_pos, sun_pos, TropicalOf(moon_pos), TropicalOf(sun_pos))
    /\ pc' = "returned"
    /\ sid_mode' = SIDM_LAHIRI
    /\ UNCHANGED <<houses_ex_calls, natal_chart>>

NextPanchanga == GetPanchanga \/ Return

SpecPanchanga == InitPanchanga /\ [][NextPanchanga]_vars

PanchangaReturned == pc = "returned" /\ call.op = "get_panchanga"

\* C19: for every sidereal Sun and Moon longitude of [0, 360), the tithi index
\* is in [0, 29], the pada in 1..4, the karana index in [0, 17], and the
\* nakshatra and yoga indices in [0, 26]: every lookup into the tithi (30),
\* karana (18), nakshatra (27) and yoga (27) tables is within bounds.
C19_PanchangaIndicesInBounds ==
    PanchangaReturned =>
        /\ result.indices.tithi_index \in 0..29
        /\ result.indices.pada \in 1..4
        /\ result.indices.karana_index \in 0..17
        /\ result.indices.nak_index \in 0..26
        /\ result.indices.yoga_index \in 0..26
        /\ Len(TITHIS) = 30 /\ Len(KARANAS) = 18
        /\ Len(NAKSHATRAS) = 27 /\ Len(YOGAS) = 27
        /\ result.error = None

\* the Moon's answer is below the Sun's by less than any grid step
MoonJustBehindSun ==
    /\ calc_ut_calls[1].lon.units = calc_ut_calls[2].lon.units
    /\ calc_ut_calls[1].lon.tiny < calc_ut_calls[2].lon.tiny

\* C19 holds of the code whenever the Moon is not just behind the Sun.
C19_ExceptJustBeforeNewMoon ==
    (PanchangaReturned /\ ~MoonJustBehindSun) => C19_PanchangaIndicesInBounds

----------------------------------------------------------------------------
\* The same-sign rules of get_yogas (SpecYoga)

GetYogasReturned == pc = "returned" /\ call.op = "get_yogas"
HasAllBodies(chart) == \A b \in Bodies : DictHas(chart.planets, b)

IsNeechaBhanga(yoga) == yoga[1] = "Neecha Bhanga Raja Yoga"

\* the entry of a rule when the two bodies of the chart share a sign
WhenSharingSign(chart, a, b, name) ==
    IF DictGet(chart.planets, a).sign = DictGet(chart.planets, b).sign
    THEN <<<<name>>>>
    ELSE <<>>

----------------------------------------------------------------------------
\* The Raj Yoga rule of detect_yogas (SpecYoga)

DetectYogasReturned == pc = "returned" /\ call.op = "detect_yogas"

\* the bodies listed in the house of a chart that carries a number
BodiesInHouse(chart, number) ==
    {b \in Bodies :
        \E i \in 1..Len(chart.houses) :
            /\ chart.houses[i].number = number
            /\ \E j \in 1..Len(chart.houses[i].planets) : chart.houses[i].planets[j] = b}

RajYogaCount == Len(SelectSeq(result.yogas, LAMBDA y : y = <<"Raj Yoga">>))

\* C21: detect_yogas reports Raj Yoga exactly when at least two bodies are in
\* house 1, the one house that is both a kendra and a trikona, whatever
\* bodies share house 4, 5, 7, 9 or 10; the entry is then added once per body
\* of house 1.
C21_RajYogaOnlyInFirstHouse ==
    DetectYogasReturned =>
        RajYogaCount =
            IF Cardinality(BodiesInHouse(call.chart, 1)) >= 2
            THEN Cardinality(BodiesInHouse(call.chart, 1))
            ELSE 0

\* three bodies in house 1 give three entries, with bodies sharing houses 4
\* and 7 as well
C21_Witness ==
    /\ DetectYogasReturned
    /\ Cardinality(BodiesInHouse(call.chart, 1)) = 3
    /\ Cardinality(BodiesInHouse(call.chart, 4)) >= 2
    /\ Cardinality(BodiesInHouse(call.chart, 7)) >= 2
    /\ RajYogaCount = 3

\* bodies share house 5, 9 or 10 while house 1 holds at most one body
C21_SharedTrikonaOrKendraReached ==
    /\ DetectYogasReturned
    /\ Cardinality(BodiesInHouse(call.chart, 1)) <= 1
    /\ \E n \in {5, 9, 10} : Cardinality(BodiesInHouse(call.chart, n)) >= 2

----------------------------------------------------------------------------
\* The Neecha-Bhanga rule of get_yogas (SpecYoga)

\* the 7 tabulated bodies in table order, with the signs the claim rests on
TabulatedBodies == <<"Sun", "Moon", "Mars", "Mercury", "Jupiter", "Venus", "Saturn">>

DebilitationSign(name) ==
    CASE name = "Sun" -> "Libra" [] name = "Moon" -> "Scorpio" [] name = "Mars" -> "Cancer"
      [] name = "Mercury" -> "Pisces" [] name = "Jupiter" -> "Capricorn"
      [] name = "Venus" -> "Virgo" [] name = "Saturn" -> "Aries"

ExaltationSign(name) ==
    CASE name = "Sun" -> "Aries" [] name = "Moon" -> "Taurus" [] name = "Mars" -> "Capricorn"
      [] name = "Mercury" -> "Virgo" [] name = "Jupiter" -> "Cancer"
      [] name = "Venus" -> "Pisces" [] name = "Saturn" -> "Libra"

InSign(chart, name, sign) ==
    DictHas(chart.planets, name) /\ DictGet(chart.planets, name).sign = sign

\* places in the table of the bodies that cancel the debilitation of the
\* body at place i
Cancellers(chart, i) ==
    {k \in 1..Len(TabulatedBodies) :
        /\ k # i
        /\ InSign(chart, TabulatedBodies[k], ExaltationSign(TabulatedBodies[k]))
        /\ InSign(chart, TabulatedBodies[i], ExaltationSign(TabulatedBodies[k]))}

\* the entries the claim expects: one per debilitated body with a canceller,
\* naming the first canceller of the table
ExpectedNeechaBhanga(chart) ==
    {<<"Neecha Bhanga Raja Yoga", TabulatedBodies[i],
       TabulatedBodies[CHOOSE k \in Cancellers(chart, i) : \A m \in Cancellers(chart, i) : k <= m]>> :
        i \in {n \in 1..Len(TabulatedBodies) :
                  /\ InSign(chart, TabulatedBodies[n], DebilitationSign(TabulatedBodies[n]))
                  /\ Cancellers(chart, n) # {}}}

NeechaBhangaEntries == SelectSeq(result.yogas, IsNeechaBhanga)

\* C22: get_yogas reports a Neecha-Bhanga entry for a body exactly when the
\* body is in its debilitation sign and another tabulated body is in its own
\* exaltation sign, which is the sign the first body occupies; at most one
\* entry per debilitated body, naming the first such other body of the table.
C22_NeechaBhangaOncePerDebilitatedBody ==
    GetYogasReturned =>
        /\ {NeechaBhangaEntries[i] : i \in 1..Len(NeechaBhangaEntries)}
               = ExpectedNeechaBhanga(call.chart)
        /\ \A i, j \in 1..Len(NeechaBhangaEntries) :
               i # j => NeechaBhangaEntries[i][2] # NeechaBhangaEntries[j][2]

\* Mars in Cancer with Jupiter exalted there is reported; the Sun in Libra,
\* with Mercury exalted in Virgo and no body exalted in Libra, is not
C22_Witness ==
    /\ GetYogasReturned
    /\ InSign(call.chart, "Sun", "Libra")
    /\ InSign(call.chart, "Saturn", "Aries")
    /\ InSign(call.chart, "Mercury", "Virgo")
    /\ NeechaBhangaEntries = <<<<"Neecha Bhanga Raja Yoga", "Mars", "Jupiter">>>>

----------------------------------------------------------------------------
\* The Gajakesari test of detect_yogas (utils.py line 73), on its own: every
\* pair of house numbers

HouseNumbers == 1..Len(ZODIAC_SIGNS)

InitKendra ==
    /\ pc = "idle"
    /\ call = NoCall
    /\ result = NoResult
    /\ sid_mode = SIDM_DEFAULT
    /\ houses_ex_calls = <<>>
    /\ calc_ut_calls = <<>>
    /\ natal_chart = None

GajakesariTest ==
    /\ pc = "idle"
    /\ \E jupiter_house \in HouseNumbers, moon_house \in HouseNumbers :
          /\ call' = [op |-> "gajakesari_test", jupiter_house |-> jupiter_house,
                      moon_house |-> moon_house]
          /\ result' = gajakesari_test(jupiter_house, moon_house)
    /\ pc' = "returned"
    /\ UNCHANGED <<sid_mode, houses_ex_calls, calc_ut_calls, natal_chart>>

NextKendra == GajakesariTest \/ Return

SpecKendra == InitKendra /\ [][NextKendra]_vars

KendraReturned == pc = "returned" /\ call.op = "gajakesari_test"

\* the place of Jupiter's house counted cyclically from the Moon's house,
\* the Moon's own house being the 1st
HouseFromMoon ==
    CHOOSE n \in 1..12 : (12 + call.moon_house + (n - 1) - call.jupiter_house) % 12 = 0

\* C24: for all house numbers of the Moon and Jupiter in 1..12, the test on
\* the absolute difference holds exactly when Jupiter is in the 1st, 4th, 7th
\* or 10th house counted cyclically from the Moon's house, that is when
\* (j - m) mod 12 is 0, 3, 6 or 9.
C24_AbsTestIsKendraFromMoon ==
    KendraReturned =>
        /\ result = (HouseFromMoon \in {1, 4, 7, 10})
        /\ result = (((12 + call.jupiter_house - call.moon_house) % 12) \in {0, 3, 6, 9})

\* the Moon in house 11 and Jupiter in house 2: the 4th house from the Moon,
\* across the wrap from house 12 to house 1
C24_Witness ==
    /\ KendraReturned
    /\ call.moon_house = 11
    /\ call.jupiter_house = 2
    /\ result = TRUE

----------------------------------------------------------------------------
\* The D1 division: the chart builders and get_divisional_sign side by side

InitD1 == Init

NextD1 == GetBirthChart \/ GetDivisionalChart \/ GetDivisionalSign \/ Return

SpecD1 == InitD1 /\ [][NextD1]_vars

\* a D1 divisional chart was asked for with coordinates in range
D1ChartReturned ==
    /\ pc = "returned"
    /\ call.op = "get_divisional_chart"
    /\ call.chart_type = "D1"
    /\ call.lat >= -90 /\ call.lat <= 90
    /\ call.lon >= -180 /\ call.lon <= 180

\* what the ephemeris answered during the invocation
AnsweredAscendant == houses_ex_calls[1].asc
AnsweredPositions ==
    [n \in QueriedBodies |->
        LET i == CHOOSE k \in 1..Len(calc_ut_calls) : calc_ut_calls[k].body = n
        IN  [lon |-> calc_ut_calls[i].lon, speed |-> calc_ut_calls[i].speed]]

\* C23: get_divisional_sign(L, 1) is get_zodiac_sign(L) for every longitude,
\* and for coordinates in range and the same ephemeris answers the chart of
\* get_divisional_chart("D1", ...) equals the chart of get_birth_chart:
\* ascendant sign and degree, house signs, bodies of each house in order,
\* sign, longitude and retrograde flag of each body, and chart type "D1".
C23_D1IsTheBirthChart ==
    /\ VargaReturned(1) => result = get_zodiac_sign(call.original_degree)
    /\ D1ChartReturned =>
          /\ result.chart # None
          /\ result.chart[1].chart_type = "D1"
          /\ result.chart
                = get_birth_chart(call.lat, call.lon, AnsweredAscendant, AnsweredPositions).ret.chart

\* a D1 chart with the ascendant in Leo and Ketu in Leo, in house 1
C23_Witness ==
    /\ D1ChartReturned
    /\ result.chart # None
    /\ result.chart[1].ascendant_sign = "Leo"
    /\ result.chart[1].ascendant_degree = AscStride
    /\ DictGet(result.chart[1].planets, "Ketu").sign = "Leo"
    /\ "Ketu" \in BodiesInHouse(result.chart[1], 1)

=============================================================================
